---- MODULE Spec2Model ----
(***************************************************************************)
(* Model of the To-Do List command line program (Day 1/index.js).          *)
(*                                                                         *)
(* The program keeps its whole state in two files of the working           *)
(* directory, db.json (the array of tasks) and counter.json (the object    *)
(* {counter: n}).  Every CLI invocation is one process that runs one of    *)
(* the commander actions add, edit, delete, list, filter.  Each `await`    *)
(* of an action is one step of the model, so that the order of the file    *)
(* operations and the states between them are visible.                     *)
(***************************************************************************)
EXTENDS Integers, Sequences, FiniteSets, TLC

(***************************************************************************)
(* Bounds of the model.                                                    *)
(***************************************************************************)
MaxTasks == 3         \* an add starts only while db.json holds fewer tasks
MaxDrift == 1         \* an invocation is stopped early only while the counter is
                      \* less than this above the number of tasks

\* process slots: two invocations can be in progress at the same time
Procs == {"p1", "p2"}

(***************************************************************************)
(* Command line inputs.                                                    *)
(***************************************************************************)
Undefined == "<undefined>"       \* an option that was not given

AddTitles == {"A", "B"}                  \* values of --title of add
EditTitles == {"B", ""}                  \* values of --title of edit
StatusInputs == {Undefined, "done"}      \* values of --status of add and edit
FilterInputs == {Undefined, "todo", "done"}   \* values of --status of filter
\* values of --id: the characters of the argument string
IdInputs == { <<"1">>, <<"2">>, <<"3">>, <<" ", "1", "a">>, <<"a">> }

\* JavaScript truthiness of an option value: undefined and "" are falsy
Falsy(v) == v = Undefined \/ v = ""

(***************************************************************************)
(* parseInt(string), radix 10: skip leading white space, read an optional  *)
(* sign, then the longest run of digits; NaN when there is no digit.       *)
(***************************************************************************)
DigitVal == [c \in {"0", "1", "2", "3", "4", "5", "6", "7", "8", "9"} |->
               CASE c = "0" -> 0 [] c = "1" -> 1 [] c = "2" -> 2 [] c = "3" -> 3
                 [] c = "4" -> 4 [] c = "5" -> 5 [] c = "6" -> 6 [] c = "7" -> 7
                 [] c = "8" -> 8 [] c = "9" -> 9]

IsDigit(c) == c \in DOMAIN DigitVal

RECURSIVE SkipSpace(_)
SkipSpace(s) == IF s # <<>> /\ Head(s) = " " THEN SkipSpace(Tail(s)) ELSE s

\* value of the leading digits of s, continuing from acc; seen = a digit was read
RECURSIVE ReadDigits(_, _, _)
ReadDigits(s, acc, seen) ==
  IF s # <<>> /\ IsDigit(Head(s))
    THEN ReadDigits(Tail(s), acc * 10 + DigitVal[Head(s)], TRUE)
    ELSE [isNaN |-> ~seen, val |-> acc]

parseInt(str) ==
  LET s == SkipSpace(str)
      neg == s # <<>> /\ Head(s) = "-"
      rest == IF s # <<>> /\ Head(s) \in {"-", "+"} THEN Tail(s) ELSE s
      r == ReadDigits(rest, 0, FALSE)
  IN  IF r.isNaN THEN [isNaN |-> TRUE, val |-> 0]
      ELSE [isNaN |-> FALSE, val |-> IF neg THEN 0 - r.val ELSE r.val]

\* task.id === parseInt(options.id): NaN is equal to nothing
StrictEqId(id, parsed) == ~parsed.isNaN /\ id = parsed.val

(***************************************************************************)
(* JSON text.  A file's text is a sequence of tokens; the white space that *)
(* the indentation argument of JSON.stringify adds carries no information  *)
(* and is left out.                                                        *)
(***************************************************************************)
P(s) == [k |-> "punct", n |-> 0, s |-> s]
S(s) == [k |-> "str", n |-> 0, s |-> s]
N(n) == [k |-> "num", n |-> n, s |-> ""]

\* variant: the values of title and status are written under each other's key
stringifyTask_swapped(t) ==
  << P("{"), S("id"), P(":"), N(t.id), P(","),
     S("title"), P(":"), S(t.status), P(","),
     S("status"), P(":"), S(t.title), P("}") >>

stringifyTask(t) ==
  << P("{"), S("id"), P(":"), N(t.id), P(","),
     S("title"), P(":"), S(t.title), P(","),
     S("status"), P(":"), S(t.status), P("}") >>

RECURSIVE stringifyTasks(_)
stringifyTasks(db) ==
  IF db = <<>> THEN <<>>
  ELSE IF Len(db) = 1 THEN stringifyTask(db[1])
  ELSE stringifyTask(db[1]) \o <<P(",")>> \o stringifyTasks(Tail(db))

\* JSON.stringify(db, null, 4)
stringifyDb(db) == <<P("[")>> \o stringifyTasks(db) \o <<P("]")>>

\* JSON.stringify(ctr, null, 4)
stringifyCtr(ctr) == << P("{"), S("counter"), P(":"), N(ctr.counter), P("}") >>

\* number of tokens of one task object
TaskLen == Len(stringifyTask([id |-> 0, title |-> "", status |-> ""]))

\* the task object that the 13 tokens t spell, or a syntax error
parseTask(t) ==
  IF /\ Len(t) = TaskLen
     /\ t[1] = P("{") /\ t[2] = S("id") /\ t[3] = P(":") /\ t[4].k = "num"
     /\ t[5] = P(",") /\ t[6] = S("title") /\ t[7] = P(":") /\ t[8].k = "str"
     /\ t[9] = P(",") /\ t[10] = S("status") /\ t[11] = P(":") /\ t[12].k = "str"
     /\ t[13] = P("}")
    THEN [threw |-> FALSE, value |-> [id |-> t[4].n, title |-> t[8].s, status |-> t[12].s]]
    ELSE [threw |-> TRUE, value |-> [id |-> 0, title |-> "", status |-> ""]]

\* the elements of an array body: task objects separated by commas
RECURSIVE parseTasks(_)
parseTasks(t) ==
  IF Len(t) < TaskLen THEN [threw |-> TRUE, value |-> <<>>]
  ELSE LET first == parseTask(SubSeq(t, 1, TaskLen))
           more == SubSeq(t, TaskLen + 1, Len(t))
       IN  IF first.threw THEN [threw |-> TRUE, value |-> <<>>]
           ELSE IF more = <<>> THEN [threw |-> FALSE, value |-> <<first.value>>]
           ELSE IF Head(more) # P(",") THEN [threw |-> TRUE, value |-> <<>>]
           ELSE LET rest == parseTasks(Tail(more))
                IN  IF rest.threw THEN [threw |-> TRUE, value |-> <<>>]
                    ELSE [threw |-> FALSE, value |-> <<first.value>> \o rest.value]

\* JSON.parse of the text of db.json
parseDb(t) ==
  IF Len(t) < 2 \/ Head(t) # P("[") \/ t[Len(t)] # P("]")
    THEN [threw |-> TRUE, value |-> <<>>]
  ELSE IF Len(t) = 2 THEN [threw |-> FALSE, value |-> <<>>]
  ELSE parseTasks(SubSeq(t, 2, Len(t) - 1))

\* JSON.parse of the text of counter.json
parseCtr(t) ==
  IF /\ Len(t) = 5
     /\ t[1] = P("{") /\ t[2] = S("counter") /\ t[3] = P(":") /\ t[4].k = "num"
     /\ t[5] = P("}")
    THEN [threw |-> FALSE, value |-> [counter |-> t[4].n]]
    ELSE [threw |-> TRUE, value |-> [counter |-> 0]]

(***************************************************************************)
(* Files.  A file is absent, or holds a text (<<>> is the empty file).     *)
(***************************************************************************)
Absent == [exists |-> FALSE, data |-> <<>>]
FileOf(text) == [exists |-> TRUE, data |-> text]

\* variant: a text that does not parse is replaced by the default value
readJSONFile_swallow(file, defaultValue, parsed) ==
  IF ~file.exists THEN [threw |-> FALSE, value |-> defaultValue]
  ELSE IF file.data = <<>> THEN [threw |-> FALSE, value |-> defaultValue]
  ELSE IF parsed.threw THEN [threw |-> FALSE, value |-> defaultValue]
  ELSE parsed

\* variant: the empty file is given to JSON.parse
readJSONFile_noEmptyCheck(file, defaultValue, parsed) ==
  IF ~file.exists THEN [threw |-> FALSE, value |-> defaultValue]
  ELSE parsed

\* readJSONFile(filePath, defaultValue), parsed being JSON.parse(data)
readJSONFile(file, defaultValue, parsed) ==
  IF ~file.exists THEN [threw |-> FALSE, value |-> defaultValue]
  ELSE IF file.data = <<>> THEN [threw |-> FALSE, value |-> defaultValue]
  ELSE parsed

readDb(file) == readJSONFile(file, <<>>, parseDb(file.data))
readCtr(file) == readJSONFile(file, [counter |-> 0], parseCtr(file.data))

(***************************************************************************)
(* State.                                                                  *)
(***************************************************************************)
VARIABLES
  dbFile,     \* the file db.json
  ctrFile,    \* the file counter.json
  pc,         \* pc[p]: the await at which invocation p stands, or "exit"
  options,    \* options[p]: the parsed command line of invocation p
  db,         \* db[p]: the local array db of the action
  ctr,        \* ctr[p]: the local object ctr of the action
  logged,     \* logged[p]: the message the action printed
  out,        \* out[p]: the task objects the action printed, in order
  wrote,      \* wrote[p]: names of the files the action wrote, in order
  pre,        \* pre[p]: the two files as they were when p started, and the
              \* options p was started with
  added,      \* the tasks that completed adds created and no completed delete
              \* removed, in order of creation, with their latest title and status
  issued      \* the ids that completed adds gave to their tasks

vars == << dbFile, ctrFile, pc, options, db, ctr, logged, out, wrote, pre, added,
           issued >>

NoOptions == [cmd |-> "none", title |-> Undefined, id |-> <<>>, status |-> Undefined]

Init ==
  /\ dbFile = Absent
  /\ ctrFile = Absent
  /\ pc = [p \in Procs |-> "exit"]
  /\ options = [p \in Procs |-> NoOptions]
  /\ db = [p \in Procs |-> <<>>]
  /\ ctr = [p \in Procs |-> [counter |-> 0]]
  /\ logged = [p \in Procs |-> "none"]
  /\ out = [p \in Procs |-> <<>>]
  /\ wrote = [p \in Procs |-> <<>>]
  /\ pre = [p \in Procs |-> [db |-> Absent, ctr |-> Absent, options |-> NoOptions]]
  /\ added = <<>>
  /\ issued = {}

(***************************************************************************)
(* Start of an invocation: commander parses the command line and calls the *)
(* action of the command.                                                  *)
(***************************************************************************)
Begin(p, opts, first) ==
  /\ pc[p] = "exit"
  /\ pc' = [pc EXCEPT ![p] = first]
  /\ options' = [options EXCEPT ![p] = opts]
  /\ db' = [db EXCEPT ![p] = <<>>]
  /\ ctr' = [ctr EXCEPT ![p] = [counter |-> 0]]
  /\ logged' = [logged EXCEPT ![p] = "none"]
  /\ out' = [out EXCEPT ![p] = <<>>]
  /\ wrote' = [wrote EXCEPT ![p] = <<>>]
  /\ pre' = [pre EXCEPT ![p] = [db |-> dbFile, ctr |-> ctrFile, options |-> opts]]
  /\ UNCHANGED << dbFile, ctrFile, added, issued >>

StartAdd(p) ==
  /\ Len(readDb(dbFile).value) < MaxTasks
  /\ \E t \in AddTitles, s \in StatusInputs :
       Begin(p, [cmd |-> "add", title |-> t, id |-> <<>>, status |-> s], "add_readDb")

StartEdit(p) ==
  \E t \in EditTitles, i \in IdInputs, s \in StatusInputs :
    Begin(p, [cmd |-> "edit", title |-> t, id |-> i, status |-> s], "edit_readDb")

StartDelete(p) ==
  \E i \in IdInputs :
    Begin(p, [cmd |-> "delete", title |-> Undefined, id |-> i, status |-> Undefined],
          "delete_readDb")

StartList(p) == Begin(p, [NoOptions EXCEPT !.cmd = "list"], "list_readDb")

StartFilter(p) ==
  \E s \in FilterInputs :
    Begin(p, [cmd |-> "filter", title |-> Undefined, id |-> <<>>, status |-> s],
          "filter_readDb")

\* the action returns, or its catch clause has logged the error: the process ends
Exit(p, message) ==
  /\ pc' = [pc EXCEPT ![p] = "exit"]
  /\ logged' = [logged EXCEPT ![p] = message]
  /\ db' = [db EXCEPT ![p] = <<>>]
  /\ ctr' = [ctr EXCEPT ![p] = [counter |-> 0]]

\* fsPromises.writeFile(name, text)
WriteDbFile(p, text) ==
  /\ dbFile' = FileOf(text)
  /\ wrote' = [wrote EXCEPT ![p] = Append(@, "db.json")]

WriteCtrFile(p, text) ==
  /\ ctrFile' = FileOf(text)
  /\ wrote' = [wrote EXCEPT ![p] = Append(@, "counter.json")]

(***************************************************************************)
(* add                                                                     *)
(***************************************************************************)
\* variant: the duplicate check looks at the first task only
taskExists_firstOnly(d, title) == d # <<>> /\ d[1].title = title

\* db.some((task) => task.title === title)
taskExists(d, title) == \E i \in 1..Len(d) : d[i].title = title

AddReadDb(p) ==
  /\ pc[p] = "add_readDb"
  /\ LET r == readDb(dbFile)
     IN  IF r.threw
           THEN Exit(p, "Error")
         ELSE IF taskExists(r.value, options[p].title)
           THEN Exit(p, "AlreadyExists")
         ELSE /\ db' = [db EXCEPT ![p] = r.value]
              /\ pc' = [pc EXCEPT ![p] = "add_readCtr"]
              /\ UNCHANGED << ctr, logged >>
  /\ UNCHANGED << dbFile, ctrFile, options, out, wrote, pre, added, issued >>

\* the object pushed on db
NewTask(counter, title, status) == [id |-> counter, title |-> title, status |-> status]

\* variant: the task is put in front (unshift)
push_front(d, task) == <<task>> \o d

\* db.push(task)
push(d, task) == Append(d, task)

AddReadCtr(p) ==
  /\ pc[p] = "add_readCtr"
  /\ LET r == readCtr(ctrFile)
         counter == r.value.counter + 1
         status == IF Falsy(options[p].status) THEN "todo" ELSE options[p].status
         newDb == push(db[p], NewTask(counter, options[p].title, status))
     IN  IF r.threw
           THEN /\ Exit(p, "Error")
                /\ UNCHANGED << options, out >>
           ELSE /\ ctr' = [ctr EXCEPT ![p] = [counter |-> counter]]
                /\ options' = [options EXCEPT ![p].status = status]
                /\ db' = [db EXCEPT ![p] = newDb]
                /\ out' = [out EXCEPT ![p] = newDb]
                /\ pc' = [pc EXCEPT ![p] = "add_writeCtr"]
                /\ UNCHANGED logged
  /\ UNCHANGED << dbFile, ctrFile, wrote, pre, added, issued >>

\* variant: the first write of add is the one of db.json
AddWriteCtr_dbFirst(p) ==
  /\ pc[p] = "add_writeCtr"
  /\ WriteDbFile(p, stringifyDb(db[p]))
  /\ pc' = [pc EXCEPT ![p] = "add_writeDb"]
  /\ UNCHANGED << ctrFile, options, db, ctr, logged, out, pre, added, issued >>

AddWriteCtr(p) ==
  /\ pc[p] = "add_writeCtr"
  /\ WriteCtrFile(p, stringifyCtr(ctr[p]))
  /\ pc' = [pc EXCEPT ![p] = "add_writeDb"]
  /\ UNCHANGED << dbFile, options, db, ctr, logged, out, pre, added, issued >>

\* variant: the write of db.json puts the new task on the array read again
\* from the file
AddWriteDb_reload(p) ==
  /\ pc[p] = "add_writeDb"
  /\ WriteDbFile(p, stringifyDb(push(readDb(dbFile).value, db[p][Len(db[p])])))
  /\ Exit(p, "Added")
  /\ added' = Append(added, [id |-> ctr[p].counter, title |-> options[p].title,
                              status |-> options[p].status])
  /\ issued' = issued \cup {ctr[p].counter}
  /\ UNCHANGED << ctrFile, options, out, pre >>

AddWriteDb(p) ==
  /\ pc[p] = "add_writeDb"
  /\ WriteDbFile(p, stringifyDb(db[p]))
  /\ Exit(p, "Added")
  /\ added' = Append(added, [id |-> ctr[p].counter, title |-> options[p].title,
                              status |-> options[p].status])
  /\ issued' = issued \cup {ctr[p].counter}
  /\ UNCHANGED << ctrFile, options, out, pre >>

(***************************************************************************)
(* edit                                                                    *)
(***************************************************************************)
\* variant: the last matching task is found (findLastIndex)
findIndex_last(d, id) ==
  LET parsed == parseInt(id)
      hits == {i \in 1..Len(d) : StrictEqId(d[i].id, parsed)}
  IN  IF hits = {} THEN -1
      ELSE (CHOOSE i \in hits : \A j \in hits : i >= j) - 1

\* variant: a failed search falls back to index 0 when there are tasks
findIndex_orZero(d, id) ==
  LET parsed == parseInt(id)
      hits == {i \in 1..Len(d) : StrictEqId(d[i].id, parsed)}
  IN  IF hits = {} THEN (IF d = <<>> THEN -1 ELSE 0)
      ELSE (CHOOSE i \in hits : \A j \in hits : i <= j) - 1

\* db.findIndex((task) => task.id === parseInt(id)): the index, counted from 0,
\* of the first matching task, or -1
findIndex(d, id) ==
  LET parsed == parseInt(id)
      hits == {i \in 1..Len(d) : StrictEqId(d[i].id, parsed)}
  IN  IF hits = {} THEN -1
      ELSE (CHOOSE i \in hits : \A j \in hits : i <= j) - 1

\* variant: the title is assigned also when it is empty
editTask_alwaysTitle(d, taskIndex, title, status) ==
  LET t0 == d[taskIndex + 1]
      t1 == [t0 EXCEPT !.title = title]
      t2 == IF Falsy(status) THEN t1 ELSE [t1 EXCEPT !.status = status]
  IN  [d EXCEPT ![taskIndex + 1] = t2]

\* variant: every task with the id of the matched one is assigned
editTask_allMatching(d, taskIndex, title, status) ==
  [i \in 1..Len(d) |->
     IF d[i].id # d[taskIndex + 1].id THEN d[i]
     ELSE [id |-> d[i].id,
           title |-> IF Falsy(title) THEN d[i].title ELSE title,
           status |-> IF Falsy(status) THEN d[i].status ELSE status]]

\* the assignments to db[taskIndex].title and db[taskIndex].status
editTask(d, taskIndex, title, status) ==
  LET t0 == d[taskIndex + 1]
      t1 == IF Falsy(title) THEN t0 ELSE [t0 EXCEPT !.title = title]
      t2 == IF Falsy(status) THEN t1 ELSE [t1 EXCEPT !.status = status]
  IN  [d EXCEPT ![taskIndex + 1] = t2]

EditReadDb(p) ==
  /\ pc[p] = "edit_readDb"
  /\ LET r == readDb(dbFile)
         taskIndex == findIndex(r.value, options[p].id)
     IN  IF r.threw
           THEN Exit(p, "Error")
         ELSE IF taskIndex = -1
           THEN Exit(p, "NotFound")
         ELSE /\ db' = [db EXCEPT ![p] =
                          editTask(r.value, taskIndex, options[p].title, options[p].status)]
              /\ pc' = [pc EXCEPT ![p] = "edit_writeDb"]
              /\ UNCHANGED << ctr, logged >>
  /\ UNCHANGED << dbFile, ctrFile, options, out, wrote, pre, added, issued >>

\* index in the record of created tasks of the first one whose id is the one
\* asked for, or 0
FirstAlive(hist, id) ==
  LET parsed == parseInt(id)
      hits == {i \in 1..Len(hist) : StrictEqId(hist[i].id, parsed)}
  IN  IF hits = {} THEN 0 ELSE CHOOSE i \in hits : \A j \in hits : i <= j

\* the record of created tasks after an edit that reported success
AddedAfterEdit(hist, id, title, status) ==
  LET i == FirstAlive(hist, id)
  IN  IF i = 0 THEN hist
      ELSE [hist EXCEPT ![i].title = IF Falsy(title) THEN @ ELSE title,
                        ![i].status = IF Falsy(status) THEN @ ELSE status]

\* the record of created tasks after a delete that reported success
AddedAfterDelete(hist, id) ==
  LET i == FirstAlive(hist, id)
  IN  IF i = 0 THEN hist
      ELSE [j \in 1..(Len(hist) - 1) |-> IF j < i THEN hist[j] ELSE hist[j + 1]]

EditWriteDb(p) ==
  /\ pc[p] = "edit_writeDb"
  /\ WriteDbFile(p, stringifyDb(db[p]))
  /\ out' = [out EXCEPT ![p] = db[p]]
  /\ Exit(p, "Updated")
  /\ added' = AddedAfterEdit(added, options[p].id, options[p].title, options[p].status)
  /\ UNCHANGED << ctrFile, options, pre, issued >>

(***************************************************************************)
(* delete                                                                  *)
(***************************************************************************)
\* db.splice(taskIndex, 1)
splice(d, taskIndex) ==
  SubSeq(d, 1, taskIndex) \o SubSeq(d, taskIndex + 2, Len(d))

DeleteReadDb(p) ==
  /\ pc[p] = "delete_readDb"
  /\ LET r == readDb(dbFile)
         taskIndex == findIndex(r.value, options[p].id)
     IN  IF r.threw
           THEN Exit(p, "Error")
         ELSE IF taskIndex = -1
           THEN Exit(p, "NotFound")
         ELSE /\ db' = [db EXCEPT ![p] = splice(r.value, taskIndex)]
              /\ pc' = [pc EXCEPT ![p] = "delete_readCtr"]
              /\ UNCHANGED << ctr, logged >>
  /\ UNCHANGED << dbFile, ctrFile, options, out, wrote, pre, added, issued >>

\* variant: the counter is left as it was read
decrement_none(counter) == counter

\* ctr.counter--
decrement(counter) == counter - 1

DeleteReadCtr(p) ==
  /\ pc[p] = "delete_readCtr"
  /\ LET r == readCtr(ctrFile)
     IN  IF r.threw
           THEN Exit(p, "Error")
           ELSE /\ ctr' = [ctr EXCEPT ![p] = [counter |-> decrement(r.value.counter)]]
                /\ pc' = [pc EXCEPT ![p] = "delete_writeDb"]
                /\ UNCHANGED << db, logged >>
  /\ UNCHANGED << dbFile, ctrFile, options, out, wrote, pre, added, issued >>

\* variant: the first write of delete is the one of counter.json
DeleteWriteDb_ctrFirst(p) ==
  /\ pc[p] = "delete_writeDb"
  /\ WriteCtrFile(p, stringifyCtr(ctr[p]))
  /\ pc' = [pc EXCEPT ![p] = "delete_writeCtr"]
  /\ UNCHANGED << dbFile, options, db, ctr, logged, out, pre, added, issued >>

DeleteWriteDb(p) ==
  /\ pc[p] = "delete_writeDb"
  /\ WriteDbFile(p, stringifyDb(db[p]))
  /\ pc' = [pc EXCEPT ![p] = "delete_writeCtr"]
  /\ UNCHANGED << ctrFile, options, db, ctr, logged, out, pre, added, issued >>

DeleteWriteCtr(p) ==
  /\ pc[p] = "delete_writeCtr"
  /\ WriteCtrFile(p, stringifyCtr(ctr[p]))
  /\ out' = [out EXCEPT ![p] = db[p]]
  /\ Exit(p, "Deleted")
  /\ added' = AddedAfterDelete(added, options[p].id)
  /\ UNCHANGED << dbFile, options, pre, issued >>

(***************************************************************************)
(* list and filter.  These two actions have no try/catch: an error of the  *)
(* read is an unhandled rejection that ends the process.                   *)
(***************************************************************************)
\* variant: the elements are printed last to first
listOutput_reversed(d) == [i \in 1..Len(d) |-> d[Len(d) + 1 - i]]

\* db.forEach((element) => log(element))
listOutput(d) == [i \in 1..Len(d) |-> d[i]]

ListReadDb(p) ==
  /\ pc[p] = "list_readDb"
  /\ LET r == readDb(dbFile)
     IN  IF r.threw
           THEN /\ Exit(p, "Unhandled")
                /\ UNCHANGED out
           ELSE /\ out' = [out EXCEPT ![p] = listOutput(r.value)]
                /\ Exit(p, "none")
  /\ UNCHANGED << dbFile, ctrFile, options, wrote, pre, added, issued >>

\* variant: the callback prints the elements whose status differs
RECURSIVE filterOutput_negated(_, _)
filterOutput_negated(d, status) ==
  IF d = <<>> THEN <<>>
  ELSE IF Head(d).status # status
    THEN <<Head(d)>> \o filterOutput_negated(Tail(d), status)
    ELSE filterOutput_negated(Tail(d), status)

\* the elements for which the callback of db.filter prints its block
RECURSIVE filterOutput(_, _)
filterOutput(d, status) ==
  IF d = <<>> THEN <<>>
  ELSE IF Head(d).status = status
    THEN <<Head(d)>> \o filterOutput(Tail(d), status)
    ELSE filterOutput(Tail(d), status)

FilterReadDb(p) ==
  /\ pc[p] = "filter_readDb"
  /\ LET r == readDb(dbFile)
     IN  IF r.threw
           THEN /\ Exit(p, "Unhandled")
                /\ UNCHANGED out
           ELSE /\ out' = [out EXCEPT ![p] = filterOutput(r.value, options[p].status)]
                /\ Exit(p, "none")
  /\ UNCHANGED << dbFile, ctrFile, options, wrote, pre, added, issued >>

(***************************************************************************)
(* Specification of invocations run one after the other: the next one      *)
(* starts when the previous process has ended.                             *)
(***************************************************************************)
Main == "p1"

Next ==
  \/ StartAdd(Main)
  \/ StartEdit(Main)
  \/ StartDelete(Main)
  \/ StartList(Main)
  \/ StartFilter(Main)
  \/ AddReadDb(Main)
  \/ AddReadCtr(Main)
  \/ AddWriteCtr(Main)
  \/ AddWriteDb(Main)
  \/ EditReadDb(Main)
  \/ EditWriteDb(Main)
  \/ DeleteReadDb(Main)
  \/ DeleteReadCtr(Main)
  \/ DeleteWriteDb(Main)
  \/ DeleteWriteCtr(Main)
  \/ ListReadDb(Main)
  \/ FilterReadDb(Main)

Spec == Init /\ [][Next]_vars

(***************************************************************************)
(* Specification of invocations run one after the other, each of which can *)
(* stop early: the process is killed at an await, or a writeFile rejects   *)
(* (the file is left as it was) and the catch clause logs the error.  The  *)
(* commands are the two that write both files, add and delete, and list.   *)
(***************************************************************************)
\* counter.json minus the number of tasks of db.json, when p started
PreDrift(p) ==
  readCtr(pre[p].ctr).value.counter - Len(readDb(pre[p].db).value)

\* the process is killed while it waits at an await
Kill(p) ==
  /\ pc[p] # "exit"
  /\ PreDrift(p) < MaxDrift
  /\ Exit(p, "Killed")
  /\ UNCHANGED << dbFile, ctrFile, options, out, wrote, pre, added, issued >>

\* fsPromises.writeFile rejects; the catch clause of the action logs the error
WriteFails(p) ==
  /\ pc[p] \in {"add_writeCtr", "add_writeDb", "delete_writeDb", "delete_writeCtr"}
  /\ PreDrift(p) < MaxDrift
  /\ Exit(p, "Error")
  /\ UNCHANGED << dbFile, ctrFile, options, out, wrote, pre, added, issued >>

NextCrash ==
  \/ StartAdd(Main)
  \/ StartDelete(Main)
  \/ StartList(Main)
  \/ AddReadDb(Main)
  \/ AddReadCtr(Main)
  \/ AddWriteCtr(Main)
  \/ AddWriteDb(Main)
  \/ DeleteReadDb(Main)
  \/ DeleteReadCtr(Main)
  \/ DeleteWriteDb(Main)
  \/ DeleteWriteCtr(Main)
  \/ ListReadDb(Main)
  \/ Kill(Main)
  \/ WriteFails(Main)

SpecCrash == Init /\ [][NextCrash]_vars

(***************************************************************************)
(* Specification of overlapping invocations.  Process p1 runs add and      *)
(* delete invocations one after the other; at any moment, also in the      *)
(* middle of one of them, process p2 starts one add or delete, and the      *)
(* awaits of the two are interleaved in any order.  A writeFile is taken as *)
(* one step.                                                               *)
(***************************************************************************)
Other == "p2"

\* no invocation starts after the one of p2 has started
ConcStartAdd(p) ==
  /\ options[Other].cmd = "none"
  /\ StartAdd(p)

ConcStartDelete(p) ==
  /\ options[Other].cmd = "none"
  /\ StartDelete(p)

NextConc ==
  \E p \in Procs :
    \/ ConcStartAdd(p)
    \/ ConcStartDelete(p)
    \/ AddReadDb(p)
    \/ AddReadCtr(p)
    \/ AddWriteCtr(p)
    \/ AddWriteDb(p)
    \/ DeleteReadDb(p)
    \/ DeleteReadCtr(p)
    \/ DeleteWriteDb(p)
    \/ DeleteWriteCtr(p)

SpecConc == Init /\ [][NextConc]_vars

(***************************************************************************)
(* Specification of invocations run one after the other on files that the  *)
(* user or another program left in the working directory: absent, empty,   *)
(* cut off in the middle of the text, or well formed.                      *)
(***************************************************************************)
MalformedDbText == << P("["), P("{"), S("id"), P(":"), N(1), P(",") >>
MalformedCtrText == << P("{"), S("counter"), P(":") >>

DbFileInputs ==
  { Absent, FileOf(<<>>), FileOf(MalformedDbText),
    FileOf(stringifyDb(<< [id |-> 1, title |-> "A", status |-> "todo"] >>)) }

CtrFileInputs ==
  { Absent, FileOf(<<>>), FileOf(MalformedCtrText),
    FileOf(stringifyCtr([counter |-> 1])) }

\* two documents that both parse agree, as the program leaves them: the
\* counter is the number of tasks
Agree(dbf, ctrf) ==
  (~readDb(dbf).threw /\ ~readCtr(ctrf).threw)
    => readCtr(ctrf).value.counter = Len(readDb(dbf).value)

InitFiles ==
  /\ dbFile \in DbFileInputs
  /\ ctrFile \in CtrFileInputs
  /\ Agree(dbFile, ctrFile)
  /\ pc = [p \in Procs |-> "exit"]
  /\ options = [p \in Procs |-> NoOptions]
  /\ db = [p \in Procs |-> <<>>]
  /\ ctr = [p \in Procs |-> [counter |-> 0]]
  /\ logged = [p \in Procs |-> "none"]
  /\ out = [p \in Procs |-> <<>>]
  /\ wrote = [p \in Procs |-> <<>>]
  /\ pre = [p \in Procs |-> [db |-> Absent, ctr |-> Absent, options |-> NoOptions]]
  /\ added = readDb(dbFile).value
  /\ issued = {readDb(dbFile).value[i].id : i \in 1..Len(readDb(dbFile).value)}

SpecFiles == InitFiles /\ [][Next]_vars

(***************************************************************************)
(* Properties.                                                             *)
(***************************************************************************)
\* invocation p has ended, it ran command cmd and printed message msg
Completed(p, cmd, msg) ==
  pc[p] = "exit" /\ options[p].cmd = cmd /\ logged[p] = msg

\* invocation p has ended and it ran command cmd
Ended(p, cmd) == pc[p] = "exit" /\ options[p].cmd = cmd

\* the persisted collection and counter, now and when p started
CurDb == readDb(dbFile).value
CurCtr == readCtr(ctrFile).value.counter
PreDb(p) == readDb(pre[p].db).value
PreCtr(p) == readCtr(pre[p].ctr).value.counter

\* p left both files as they were and issued no write
NothingWritten(p) ==
  dbFile = pre[p].db /\ ctrFile = pre[p].ctr /\ wrote[p] = <<>>

\* positions of the tasks of d whose id is the number that the --id argument spells
Matches(d, id) ==
  {i \in 1..Len(d) : ~parseInt(id).isNaN /\ d[i].id = parseInt(id).val}

\* d without its element at position k
Without(d, k) == [j \in 1..(Len(d) - 1) |-> IF j < k THEN d[j] ELSE d[j + 1]]

\* C1 (stated as claimed; the code violates it): whenever no invocation is in
\* progress, no two tasks of the persisted collection have the same id.
C1_UniqueIds ==
  pc[Main] = "exit" =>
    \A i, j \in 1..Len(CurDb) : i # j => CurDb[i].id # CurDb[j].id

\* C2: an add whose title no persisted task has succeeds, appends exactly one
\* task after the unchanged earlier tasks, gives it the id previous counter + 1
\* and leaves the persisted counter at previous counter + 1.
C2_AddAppends ==
  \A p \in Procs :
    (Ended(p, "add") /\ \A i \in 1..Len(PreDb(p)) : PreDb(p)[i].title # options[p].title)
    => /\ logged[p] = "Added"
       /\ Len(CurDb) = Len(PreDb(p)) + 1
       /\ SubSeq(CurDb, 1, Len(PreDb(p))) = PreDb(p)
       /\ CurDb[Len(CurDb)].title = options[p].title
       /\ CurDb[Len(CurDb)].id = PreCtr(p) + 1
       /\ CurCtr = PreCtr(p) + 1

C2_Witness ==
  /\ Completed(Main, "add", "Added")
  /\ Len(PreDb(Main)) = 2
  /\ Len(CurDb) = 3

\* C3: an add whose title some persisted task already has reports
\* AlreadyExists, leaves both files unchanged and writes nothing.
C3_AddDuplicate ==
  \A p \in Procs :
    (Ended(p, "add") /\ \E i \in 1..Len(PreDb(p)) : PreDb(p)[i].title = options[p].title)
    => logged[p] = "AlreadyExists" /\ NothingWritten(p)

C3_Witness ==
  /\ Completed(Main, "add", "AlreadyExists")
  /\ Len(PreDb(Main)) >= 2
  /\ PreDb(Main)[1].title # options[Main].title

\* C4 (stated as claimed; the code violates it): whenever no invocation is in
\* progress, no two tasks of the persisted collection have the same title.
C4_UniqueTitles ==
  pc[Main] = "exit" =>
    \A i, j \in 1..Len(CurDb) : i # j => CurDb[i].title # CurDb[j].title

C6_NotFound ==
  \A p \in Procs :
    ((Ended(p, "edit") \/ Ended(p, "delete")) /\ Matches(PreDb(p), options[p].id) = {})
    => logged[p] = "NotFound" /\ NothingWritten(p)

C6_Witness ==
  /\ Completed(Main, "edit", "NotFound")
  /\ PreDb(Main) # <<>>
  /\ ~Falsy(options[Main].title)

\* C7 (stated as claimed; the code violates it): every add that completes
\* gives its task an id that no earlier completed add gave.
C7_NoIdReuse ==
  [][\A p \in Procs :
       (pc[p] = "add_writeDb" /\ pc'[p] = "exit") => ctr[p].counter \notin issued]_vars

\* the files that add has written so far are a prefix of order
WroteInOrder(p, order) ==
  Len(wrote[p]) <= Len(order) /\ wrote[p] = SubSeq(order, 1, Len(wrote[p]))

\* C8 (stated as claimed; the code violates it): add saves db.json first and
\* counter.json second, so the counter file never holds the incremented value
\* while the task file is still without the new task.
C8_TasksSavedFirst ==
  \A p \in Procs :
    options[p].cmd = "add" =>
      /\ WroteInOrder(p, <<"db.json", "counter.json">>)
      /\ ~(ctrFile # pre[p].ctr /\ dbFile = pre[p].db)

\* C8 as amended: add saves counter.json first and db.json second, a
\* successful add has written both, and the task file never holds the new task
\* while the counter file is still without the incremented value.
C8_CounterSavedFirst ==
  \A p \in Procs :
    options[p].cmd = "add" =>
      /\ WroteInOrder(p, <<"counter.json", "db.json">>)
      /\ logged[p] = "Added" => wrote[p] = <<"counter.json", "db.json">>
      /\ dbFile # pre[p].db => CurCtr = PreCtr(p) + 1
      /\ ~(dbFile # pre[p].db /\ ctrFile = pre[p].ctr)

C8_Witness ==
  /\ pc[Main] = "add_writeDb"
  /\ wrote[Main] = <<"counter.json">>
  /\ CurCtr = PreCtr(Main) + 1
  /\ dbFile = pre[Main].db

\* C9: list prints the tasks that were added and not deleted, in the order in
\* which they were added, each with the title and status of its latest edit.
C9_ListOrder ==
  \A p \in Procs : Completed(p, "list", "none") => out[p] = added

C9_Witness ==
  /\ Completed(Main, "list", "none")
  /\ Len(out[Main]) >= 2
  /\ out[Main][1].id # 1
  /\ \E i \in 1..Len(out[Main]) : out[Main][i].status = "done"

\* C10: filter prints exactly the tasks that list prints whose status is the
\* one asked for, in the same relative order, and changes neither file.
C10_FilterSubset ==
  \A p \in Procs :
    Ended(p, "filter")
    => /\ out[p] = SelectSeq(listOutput(PreDb(p)), LAMBDA t : t.status = options[p].status)
       /\ NothingWritten(p)

C10_Witness ==
  /\ Completed(Main, "filter", "none")
  /\ out[Main] # <<>>
  /\ Len(out[Main]) < Len(PreDb(Main))
  /\ PreDb(Main)[1].status # options[Main].status

\* position in d of the first task whose id the --id argument spells
FirstMatch(d, id) == CHOOSE i \in Matches(d, id) : \A j \in Matches(d, id) : i <= j

\* C11: an edit of an existing id that gives a status and an empty title
\* changes the status of the first matching task and nothing else: its title
\* and id, and every other task, are as before.
C11_StatusOnlyEdit ==
  \A p \in Procs :
    (/\ Ended(p, "edit")
     /\ Matches(PreDb(p), options[p].id) # {}
     /\ Falsy(pre[p].options.title)
     /\ ~Falsy(pre[p].options.status))
    => LET k == FirstMatch(PreDb(p), options[p].id)
       IN  /\ logged[p] = "Updated"
           /\ CurDb[k].title = PreDb(p)[k].title
           /\ CurDb[k].id = PreDb(p)[k].id
           /\ CurDb = [PreDb(p) EXCEPT ![k].status = pre[p].options.status]

C11_Witness ==
  /\ Completed(Main, "edit", "Updated")
  /\ pre[Main].options.title = ""
  /\ pre[Main].options.status = "done"
  /\ PreDb(Main)[FirstMatch(PreDb(Main), options[Main].id)].status = "todo"
  /\ CurDb # PreDb(Main)

\* the file is present, not empty, and its text does not parse
MalformedDb(file) == file.exists /\ file.data # <<>> /\ parseDb(file.data).threw
MalformedCtr(file) == file.exists /\ file.data # <<>> /\ parseCtr(file.data).threw

\* invocation p read, or had to read, a document that does not parse: db.json
\* by every command, counter.json by an add of a new title and by a delete of
\* an existing id
LoadedMalformed(p) ==
  \/ MalformedDb(pre[p].db)
  \/ /\ MalformedCtr(pre[p].ctr)
     /\ \/ /\ options[p].cmd = "add"
           /\ \A i \in 1..Len(PreDb(p)) : PreDb(p)[i].title # options[p].title
        \/ /\ options[p].cmd = "delete"
           /\ Matches(PreDb(p), options[p].id) # {}

\* C12: an invocation that loads a malformed document fails (the error is
\* logged by the catch clause, or is an unhandled rejection in list and
\* filter), substitutes no default and writes to neither file; so also add
\* and delete when only counter.json is malformed.
C12_MalformedFails ==
  \A p \in Procs :
    (pc[p] = "exit" /\ options[p].cmd # "none" /\ LoadedMalformed(p))
    => /\ logged[p] \in {"Error", "Unhandled"}
       /\ NothingWritten(p)
       /\ out[p] = <<>>

C12_Witness ==
  /\ Completed(Main, "delete", "Error")
  /\ ~MalformedDb(pre[Main].db)
  /\ MalformedCtr(pre[Main].ctr)
  /\ Matches(PreDb(Main), options[Main].id) # {}

\* the file is absent or empty
Blank(file) == ~file.exists \/ file.data = <<>>

\* C13: when both files are absent or empty the collection loads as the empty
\* sequence and the counter as 0, and an add without status persists exactly
\* one task {id: 1, title, status: todo} and counter 1.
C13_FirstAdd ==
  \A p \in Procs :
    (/\ Ended(p, "add")
     /\ Blank(pre[p].db) /\ Blank(pre[p].ctr)
     /\ pre[p].options.status = Undefined)
    => /\ PreDb(p) = <<>> /\ PreCtr(p) = 0
       /\ logged[p] = "Added"
       /\ CurDb = << [id |-> 1, title |-> pre[p].options.title, status |-> "todo"] >>
       /\ CurCtr = 1

C13_Witness ==
  /\ Completed(Main, "add", "Added")
  /\ pre[Main].db = FileOf(<<>>)
  /\ pre[Main].ctr = FileOf(<<>>)
  /\ pre[Main].options.status = Undefined

\* invocation p has ended after saving db.json
SavedDb(p) == pc[p] = "exit" /\ logged[p] \in {"Added", "Updated", "Deleted"}

\* C14: the collection that an invocation saved (the array it printed, out[p])
\* is what the next invocation loads from db.json: the text parses, and to the
\* same tasks with the same field values in the same order; so also for the
\* empty collection.
C14_RoundTrip ==
  \A p \in Procs :
    SavedDb(p) => /\ dbFile.exists /\ dbFile.data # <<>>
                  /\ ~readDb(dbFile).threw
                  /\ readDb(dbFile).value = out[p]

C14_Witness ==
  /\ SavedDb(Main)
  /\ Len(out[Main]) = 3
  /\ out[Main][1].status # out[Main][2].status
  /\ out[Main][2].title # out[Main][3].title

\* the empty collection has been saved and loads as the empty sequence
C14_EmptyWitness ==
  /\ SavedDb(Main)
  /\ out[Main] = <<>>
  /\ dbFile = FileOf(stringifyDb(<<>>))
  /\ readDb(dbFile).value = <<>>

C18_EditFrame ==
  \A p \in Procs :
    Completed(p, "edit", "Updated")
    => LET k == FirstMatch(PreDb(p), options[p].id)
       IN  /\ Matches(PreDb(p), options[p].id) # {}
           /\ Len(CurDb) = Len(PreDb(p))
           /\ \A i \in 1..Len(CurDb) : CurDb[i].id = PreDb(p)[i].id
           /\ \A i \in 1..Len(CurDb) : i # k => CurDb[i] = PreDb(p)[i]
           /\ CurDb[k].title \in {PreDb(p)[k].title, pre[p].options.title}
           /\ CurDb[k].status \in {PreDb(p)[k].status, pre[p].options.status}
           /\ ctrFile = pre[p].ctr
           /\ wrote[p] = <<"db.json">>

C18_Witness ==
  /\ Completed(Main, "edit", "Updated")
  /\ Cardinality(Matches(PreDb(Main), options[Main].id)) >= 2
  /\ CurDb[FirstMatch(PreDb(Main), options[Main].id)].title
       # PreDb(Main)[FirstMatch(PreDb(Main), options[Main].id)].title
  /\ CurDb[FirstMatch(PreDb(Main), options[Main].id)].status
       # PreDb(Main)[FirstMatch(PreDb(Main), options[Main].id)].status

\* invocation p stopped between its two saves
StoppedBetweenSaves(p) ==
  /\ pc[p] = "exit"
  /\ options[p].cmd \in {"add", "delete"}
  /\ logged[p] \in {"Killed", "Error"}
  /\ Len(wrote[p]) = 1

\* C15: an add or delete that stops after its first save and before its
\* second leaves the two files inconsistent (add: the counter is incremented
\* and the collection is as before; delete: the task is removed and the
\* counter is as before), and an invocation that starts from inconsistent
\* files leaves them inconsistent: nothing repairs them.
C15_StoppedBetweenSaves ==
  \A p \in Procs :
    /\ StoppedBetweenSaves(p)
       => /\ options[p].cmd = "add"
               => CurCtr = PreCtr(p) + 1 /\ dbFile = pre[p].db
          /\ options[p].cmd = "delete"
               => Len(CurDb) = Len(PreDb(p)) - 1 /\ ctrFile = pre[p].ctr
          /\ CurCtr # Len(CurDb)
    /\ (pc[p] = "exit" /\ options[p].cmd # "none" /\ PreCtr(p) # Len(PreDb(p)))
       => CurCtr # Len(CurDb)
    /\ (pc[p] = "exit" /\ options[p].cmd # "none")
       => CurCtr - Len(CurDb) >= PreCtr(p) - Len(PreDb(p))

C15_Witness ==
  /\ Completed(Main, "add", "Added")
  /\ PreCtr(Main) # Len(PreDb(Main))
  /\ CurCtr # Len(CurDb)
  /\ Len(CurDb) = 2

\* a delete has stopped between its saves
C15_DeleteWitness ==
  /\ StoppedBetweenSaves(Main)
  /\ options[Main].cmd = "delete"
  /\ wrote[Main] = <<"db.json">>

\* C17: an invocation overwrites a file in full from what it loaded earlier,
\* whatever another invocation has written since: after the write of db.json
\* by add or delete the persisted collection is the local array of the
\* writer, and after the write of counter.json the persisted counter is its
\* local counter.  So an add that reported success can be lost, and two
\* overlapping adds of one title both pass the duplicate check (witnesses).
C17_OverwriteFromOwnLoad ==
  [][\A p \in Procs :
       /\ (pc[p] \in {"add_writeDb", "delete_writeDb"} /\ pc'[p] # pc[p])
            => readDb(dbFile').value = db[p]
       /\ (pc[p] \in {"add_writeCtr", "delete_writeCtr"} /\ pc'[p] # pc[p])
            => readCtr(ctrFile').value = ctr[p]]_vars

\* both adds started before db.json existed and reported success
BothAdded ==
  \A p \in Procs : Completed(p, "add", "Added") /\ ~pre[p].db.exists

\* two overlapping adds of different titles have completed and the persisted
\* collection holds one of the two tasks only
C17_Witness ==
  /\ BothAdded
  /\ options["p1"].title # options["p2"].title
  /\ Len(CurDb) = 1

\* two overlapping adds of one title have both passed the duplicate check
C17_SameTitleWitness ==
  /\ BothAdded
  /\ options["p1"].title = options["p2"].title

====
